---- MODULE Spec2Model ----
(***************************************************************************)
(* Model of the meeting backend: MeetingService                            *)
(* (backend/app/services/meeting_service.py), the request models           *)
(* (backend/app/models/meeting.py) and the HTTP routes                     *)
(* (backend/app/routes/meetings.py) on top of a Prisma store.              *)
(*                                                                         *)
(* Strings that the code inspects character by character (titles, emails)  *)
(* are sequences of one-character strings.  Optional[T] is None == <<>>    *)
(* or Some(x) == <<x>>.  Store ids (cuid strings in the database) are      *)
(* fresh naturals.                                                         *)
(***************************************************************************)
EXTENDS Integers, Sequences, FiniteSets, TLC

\* ---------------------------------------------------------------- bounds
MaxTitleLen == 2
MaxMeetings == 2
MaxParticipants == 2
MaxTime == 4
MaxPending == 1

\* ------------------------------------------------------------- Optional
None == <<>>
Some(x) == <<x>>
IsNone(o) == o = <<>>
Val(o) == o[1]

\* ------------------------------------------------------------- strings
Whitespace == {" "}
Chars == {" ", "a"}

RECURSIVE StringsUpTo(_)
StringsUpTo(n) ==
  IF n = 0 THEN {<<>>}
  ELSE LET shorter == StringsUpTo(n - 1)
       IN shorter \cup {Append(s, c) : s \in {t \in shorter : Len(t) = n - 1}, c \in Chars}

RECURSIVE lstrip(_)
lstrip(s) == IF s /= <<>> /\ Head(s) \in Whitespace THEN lstrip(Tail(s)) ELSE s

RECURSIVE rstrip(_)
rstrip(s) ==
  IF s /= <<>> /\ s[Len(s)] \in Whitespace THEN rstrip(SubSeq(s, 1, Len(s) - 1)) ELSE s

\* str.strip(): leading and trailing whitespace removed, interior kept
strip(s) == rstrip(lstrip(s))

\* str.split('@')[0]: the prefix before the first '@', the whole string without one
RECURSIVE split_at_0(_)
split_at_0(s) ==
  IF s = <<>> \/ Head(s) = "@" THEN <<>> ELSE <<Head(s)>> \o split_at_0(Tail(s))

\* --------------------------------------------------------------- enums
SCHEDULED == "SCHEDULED"
IN_PROGRESS == "IN_PROGRESS"
COMPLETED == "COMPLETED"
CANCELLED == "CANCELLED"
MeetingStatus == {SCHEDULED, IN_PROGRESS, COMPLETED, CANCELLED}

\* ------------------------------------------------------- request models
\* validate_title that removes the leading whitespace only
validate_title_lstrip(v) ==
  IF v = <<>> \/ Len(strip(v)) = 0 THEN None ELSE Some(lstrip(v))

\* CreateMeetingRequest.validate_title: None stands for the raised ValueError
validate_title(v) ==
  IF v = <<>> \/ Len(strip(v)) = 0 THEN None ELSE Some(strip(v))

\* ---------------------------------------------------------------- state
VARIABLES
  users,         \* set of User rows [id, email, name]
  meetings,      \* meeting id -> Meeting row
  participants,  \* participant id -> MeetingParticipant row
  nextId,        \* [user, meeting, participant]: next fresh id of each table
  now,           \* the last clock reading
  last,          \* the last request handled and its answer
  pending        \* requests past their existence check, before their write

vars == <<users, meetings, participants, nextId, now, last, pending>>

Init ==
  /\ users = {}
  /\ meetings = <<>>
  /\ participants = <<>>
  /\ nextId = [user |-> 1, meeting |-> 1, participant |-> 1]
  /\ now = 0
  /\ last = [op |-> "none"]
  /\ pending = {}

\* ------------------------------------------------------- the Prisma store
\* The Prisma client answers None, not an exception, when update or delete
\* find no row for the unique key (the `if meeting else None` of
\* start_meeting and end_meeting relies on it).

\* find_unique(where={'id': id})
find_unique(table, id) == IF id \in DOMAIN table THEN Some(table[id]) ELSE None

\* the row after update(data=data): the fields named in data are replaced
apply_data(row, data) ==
  [f \in DOMAIN row |-> IF f \in DOMAIN data THEN data[f] ELSE row[f]]

\* update(where={'id': id}, data=data) on a table
table_update(table, id, data) ==
  IF id \in DOMAIN table
  THEN [i \in DOMAIN table |-> IF i = id THEN apply_data(table[i], data) ELSE table[i]]
  ELSE table

\* delete(where={'id': id}) on a table
table_delete(table, id) == [i \in DOMAIN table \ {id} |-> table[i]]

\* rows of the participants table that go with a deleted meeting
cascade_participants(table, meeting_id) ==
  [i \in {p \in DOMAIN table : table[p].meetingId /= meeting_id} |-> table[i]]

\* the organizer row of a meeting row (include={'organizer': True})
organizer_of(us, row) == CHOOSE u \in us : u.id = row.organizerId

\* --------------------------------------------------------- response models
UserResponse_from_orm(u) == [id |-> u.id, email |-> u.email, name |-> u.name]

\* MeetingResponse.from_orm: the row's columns under the response's names
\* (the participants list of the response is left out of the model)
MeetingResponse_from_orm(us, id, row) ==
  [id |-> id, title |-> row.title, description |-> row.description,
   scheduled_at |-> row.scheduledAt, started_at |-> row.startedAt,
   ended_at |-> row.endedAt, status |-> row.status,
   meeting_url |-> row.meetingUrl,
   organizer |-> UserResponse_from_orm(organizer_of(us, row)),
   created_at |-> row.createdAt]

MeetingParticipantResponse_from_orm(id, row) ==
  [id |-> id, name |-> row.name, email |-> row.email,
   joined_at |-> row.joinedAt, left_at |-> row.leftAt]

\* ------------------------------------------------------------ the clock
\* datetime.utcnow() and the database's now(): every write to the store is
\* stamped with a reading strictly later than the one before it (microsecond
\* clock, at least one database round trip between two writes).
utcnow == now + 1

\* ------------------------------------------------------- create_meeting
\* an upsert that never looks the email up
upsert_user_always_create(us, email, fresh) ==
  [id |-> fresh, email |-> email, name |-> split_at_0(email)]

\* db.user.upsert(where={'email': email}, create={email, name}, update={})
upsert_user(us, email, fresh) ==
  LET found == {u \in us : u.email = email}
  IN IF found /= {} THEN CHOOSE u \in found : TRUE
     ELSE [id |-> fresh, email |-> email, name |-> split_at_0(email)]

\* a meeting row created as already running
create_data_in_progress(req, title, user_id, t) ==
  [title |-> title, description |-> req.description,
   scheduledAt |-> req.scheduled_at, meetingUrl |-> req.meeting_url,
   organizerId |-> user_id, status |-> IN_PROGRESS,
   startedAt |-> Some(t), endedAt |-> None, createdAt |-> t]

\* the row db.meeting.create stores: the data dict, the optional columns it
\* does not name left null, createdAt stamped by the database
create_data(req, title, user_id, t) ==
  [title |-> title, description |-> req.description,
   scheduledAt |-> req.scheduled_at, meetingUrl |-> req.meeting_url,
   organizerId |-> user_id, status |-> SCHEDULED,
   startedAt |-> None, endedAt |-> None, createdAt |-> t]

\* POST /: request validation (422 on a bad title), then the service
create_meeting(req) ==
  LET title == validate_title(req.title)
  IN IF IsNone(title)
     THEN /\ last' = [op |-> "create_meeting", req |-> req, http |-> 422, ret |-> None]
          /\ UNCHANGED <<users, meetings, participants, nextId, now, pending>>
     ELSE LET user == upsert_user(users, req.organizer_email, nextId.user)
              id == nextId.meeting
              row == create_data(req, Val(title), user.id, utcnow)
          IN /\ id <= MaxMeetings
             /\ utcnow <= MaxTime
             /\ users' = users \cup {user}
             /\ meetings' = meetings @@ (id :> row)
             /\ nextId' = [nextId EXCEPT !.meeting = id + 1,
                                         !.user = IF user.id = @ THEN @ + 1 ELSE @]
             /\ now' = utcnow
             /\ last' = [op |-> "create_meeting", req |-> req, http |-> 200,
                         ret |-> Some(MeetingResponse_from_orm(users', id, row))]
             /\ UNCHANGED <<participants, pending>>

\* --------------------------------------------------- get_meeting_details
\* the service's answer: None when find_unique finds nothing
get_meeting_details(id) ==
  LET meeting == find_unique(meetings, id)
  IN IF IsNone(meeting) THEN None
     ELSE Some(MeetingResponse_from_orm(users, id, Val(meeting)))

\* GET /{meeting_id}
get_meeting(id) ==
  LET meeting == get_meeting_details(id)
  IN /\ last' = [op |-> "get_meeting_details", id |-> id,
                 http |-> IF IsNone(meeting) THEN 404 ELSE 200, ret |-> meeting]
     /\ UNCHANGED <<users, meetings, participants, nextId, now, pending>>

\* ------------------------------------------------------- update_meeting
\* one entry of the update_data dict, present only for a supplied field:
\* for a required column (title, status) and for a nullable one
entry(field, value) == IF IsNone(value) THEN <<>> ELSE field :> Val(value)
nullable_entry(field, value) == IF IsNone(value) THEN <<>> ELSE field :> value

\* an update_data that falls back to SCHEDULED when no status is supplied
update_data_default_status(req) ==
  entry("title", req.title) @@ nullable_entry("description", req.description)
    @@ nullable_entry("scheduledAt", req.scheduled_at)
    @@ nullable_entry("meetingUrl", req.meeting_url)
    @@ (IF IsNone(req.status) THEN "status" :> SCHEDULED ELSE "status" :> Val(req.status))

\* the update_data dict update_meeting builds from the request
update_data(req) ==
  entry("title", req.title) @@ nullable_entry("description", req.description)
    @@ nullable_entry("scheduledAt", req.scheduled_at)
    @@ nullable_entry("meetingUrl", req.meeting_url)
    @@ entry("status", req.status)

\* PUT /{meeting_id}: pre-check with find_unique, then db.meeting.update
update_meeting(id, req) ==
  LET existing_meeting == find_unique(meetings, id)
  IN IF IsNone(existing_meeting)
     THEN /\ last' = [op |-> "update_meeting", id |-> id, req |-> req,
                      http |-> 404, ret |-> None]
          /\ UNCHANGED <<users, meetings, participants, nextId, now, pending>>
     ELSE /\ utcnow <= MaxTime
          /\ meetings' = table_update(meetings, id, update_data(req))
          /\ now' = utcnow
          /\ last' = [op |-> "update_meeting", id |-> id, req |-> req, http |-> 200,
                      ret |-> Some(MeetingResponse_from_orm(users, id, meetings'[id]))]
          /\ UNCHANGED <<users, participants, nextId, pending>>

\* ------------------------------------------------------- delete_meeting
\* db.meeting.delete raises for no meeting id: a missing row is answered None
delete_raises(id) == FALSE

\* MeetingService.delete_meeting: True unless the delete call raised
delete_meeting_result(id) == IF delete_raises(id) THEN FALSE ELSE TRUE

\* DELETE /{meeting_id}
delete_meeting(id) ==
  LET success == delete_meeting_result(id)
      found == id \in DOMAIN meetings
  IN /\ found => utcnow <= MaxTime
     /\ meetings' = table_delete(meetings, id)
     /\ participants' = cascade_participants(participants, id)
     /\ now' = IF found THEN utcnow ELSE now
     /\ last' = [op |-> "delete_meeting", id |-> id,
                 http |-> IF success THEN 200 ELSE 404, ret |-> success]
     /\ UNCHANGED <<users, nextId, pending>>

\* ------------------------------------------- start_meeting, end_meeting
\* a start that also forgets the previous end
start_data_reset_end(t) ==
  [status |-> IN_PROGRESS, startedAt |-> Some(t), endedAt |-> None]

\* the data dict of start_meeting
start_data(t) == [status |-> IN_PROGRESS, startedAt |-> Some(t)]

\* an end that changes the status only
end_data_status_only(t) == [status |-> COMPLETED]

\* the data dict of end_meeting
end_data(t) == [status |-> COMPLETED, endedAt |-> Some(t)]

\* a start that refuses a meeting that is COMPLETED or CANCELLED
start_meeting_guarded(id) ==
  IF id \in DOMAIN meetings /\ meetings[id].status \in {SCHEDULED, IN_PROGRESS}
  THEN /\ utcnow <= MaxTime
       /\ meetings' = table_update(meetings, id, start_data(utcnow))
       /\ now' = utcnow
       /\ last' = [op |-> "start_meeting", id |-> id, http |-> 200,
                   ret |-> Some(MeetingResponse_from_orm(users, id, meetings'[id]))]
       /\ UNCHANGED <<users, participants, nextId, pending>>
  ELSE /\ last' = [op |-> "start_meeting", id |-> id, http |-> 404, ret |-> None]
       /\ UNCHANGED <<users, meetings, participants, nextId, now, pending>>

\* POST /{meeting_id}/start: one db.meeting.update, whose None for a missing
\* row becomes the route's 404
start_meeting(id) ==
  IF id \in DOMAIN meetings
  THEN /\ utcnow <= MaxTime
       /\ meetings' = table_update(meetings, id, start_data(utcnow))
       /\ now' = utcnow
       /\ last' = [op |-> "start_meeting", id |-> id, http |-> 200,
                   ret |-> Some(MeetingResponse_from_orm(users, id, meetings'[id]))]
       /\ UNCHANGED <<users, participants, nextId, pending>>
  ELSE /\ last' = [op |-> "start_meeting", id |-> id, http |-> 404, ret |-> None]
       /\ UNCHANGED <<users, meetings, participants, nextId, now, pending>>

\* an end whose update raises for a missing row, which the route answers 500
end_meeting_raises(id) ==
  IF id \in DOMAIN meetings
  THEN /\ utcnow <= MaxTime
       /\ meetings' = table_update(meetings, id, end_data(utcnow))
       /\ now' = utcnow
       /\ last' = [op |-> "end_meeting", id |-> id, http |-> 200,
                   ret |-> Some(MeetingResponse_from_orm(users, id, meetings'[id]))]
       /\ UNCHANGED <<users, participants, nextId, pending>>
  ELSE /\ last' = [op |-> "end_meeting", id |-> id, http |-> 500, ret |-> None]
       /\ UNCHANGED <<users, meetings, participants, nextId, now, pending>>

\* POST /{meeting_id}/end
end_meeting(id) ==
  IF id \in DOMAIN meetings
  THEN /\ utcnow <= MaxTime
       /\ meetings' = table_update(meetings, id, end_data(utcnow))
       /\ now' = utcnow
       /\ last' = [op |-> "end_meeting", id |-> id, http |-> 200,
                   ret |-> Some(MeetingResponse_from_orm(users, id, meetings'[id]))]
       /\ UNCHANGED <<users, participants, nextId, pending>>
  ELSE /\ last' = [op |-> "end_meeting", id |-> id, http |-> 404, ret |-> None]
       /\ UNCHANGED <<users, meetings, participants, nextId, now, pending>>

\* ---------------------------------------------------------- participants
\* POST /{meeting_id}/participants
add_participant(meeting_id, req) ==
  LET meeting == find_unique(meetings, meeting_id)
  IN IF IsNone(meeting)
     THEN /\ last' = [op |-> "add_participant", id |-> meeting_id, req |-> req,
                      http |-> 404, ret |-> None]
          /\ UNCHANGED <<users, meetings, participants, nextId, now, pending>>
     ELSE LET pid == nextId.participant
              row == [meetingId |-> meeting_id, name |-> req.name, email |-> req.email,
                      joinedAt |-> Some(utcnow), leftAt |-> None]
          IN /\ pid <= MaxParticipants
             /\ utcnow <= MaxTime
             /\ participants' = participants @@ (pid :> row)
             /\ nextId' = [nextId EXCEPT !.participant = pid + 1]
             /\ now' = utcnow
             /\ last' = [op |-> "add_participant", id |-> meeting_id, req |-> req,
                         http |-> 200,
                         ret |-> Some(MeetingParticipantResponse_from_orm(pid, row))]
             /\ UNCHANGED <<users, meetings, pending>>

\* an order that ignores joinedAt: the rows as they were inserted
RECURSIVE order_by_insertion(_, _)
order_by_insertion(table, ids) ==
  IF ids = {} THEN {<<>>}
  ELSE LET m == CHOOSE i \in ids : \A j \in ids : i <= j
       IN {<<m>> \o rest : rest \in order_by_insertion(table, ids \ {m})}

\* the orders find_many may answer for order_by={'joinedAt': 'asc'}: the
\* smallest remaining key first, rows of equal key in any order
RECURSIVE order_by_joinedAt_asc(_, _)
order_by_joinedAt_asc(table, ids) ==
  IF ids = {} THEN {<<>>}
  ELSE UNION {{<<m>> \o rest : rest \in order_by_joinedAt_asc(table, ids \ {m})} :
                m \in {i \in ids : \A j \in ids :
                         Val(table[i].joinedAt) <= Val(table[j].joinedAt)}}

\* the possible answers of db.meetingparticipant.find_many(where={'meetingId':
\* id}, order_by={'joinedAt': 'asc'}), as sequences of participant ids
find_many_participants(table, meeting_id) ==
  order_by_joinedAt_asc(table, {p \in DOMAIN table : table[p].meetingId = meeting_id})

\* GET /{meeting_id}/participants
get_participants(meeting_id) ==
  /\ \E found \in find_many_participants(participants, meeting_id) :
       last' = [op |-> "get_participants", id |-> meeting_id, http |-> 200,
                ret |-> [k \in 1..Len(found) |->
                           MeetingParticipantResponse_from_orm(found[k], participants[found[k]])]]
  /\ UNCHANGED <<users, meetings, participants, nextId, now, pending>>

\* the update_data dict of update_participant_status
participant_update_data(joined_at, left_at) ==
  nullable_entry("joinedAt", joined_at) @@ nullable_entry("leftAt", left_at)

\* MeetingService.update_participant_status (no route): None when the update
\* finds no row (from_orm of None raises inside the try)
update_participant_status(participant_id, joined_at, left_at) ==
  IF participant_id \in DOMAIN participants
  THEN /\ utcnow <= MaxTime
       /\ participants' = table_update(participants, participant_id,
                                       participant_update_data(joined_at, left_at))
       /\ now' = utcnow
       /\ last' = [op |-> "update_participant_status", id |-> participant_id,
                   joined_at |-> joined_at, left_at |-> left_at,
                   ret |-> Some(MeetingParticipantResponse_from_orm(
                                  participant_id, participants'[participant_id]))]
       /\ UNCHANGED <<users, meetings, nextId, pending>>
  ELSE /\ last' = [op |-> "update_participant_status", id |-> participant_id,
                   joined_at |-> joined_at, left_at |-> left_at, ret |-> None]
       /\ UNCHANGED <<users, meetings, participants, nextId, now, pending>>

\* -------------------------------------------------------- list_meetings
\* `if status:` and `if organizer_email:`: None and the empty string are falsy
truthy_status(status) == ~IsNone(status) /\ Val(status) /= ""
truthy_email(email) == ~IsNone(email) /\ Val(email) /= <<>>

\* a where clause in which either supplied filter is enough
matches_any(us, row, where) ==
  \/ DOMAIN where = {}
  \/ "status" \in DOMAIN where /\ row.status = where.status
  \/ "organizer" \in DOMAIN where /\ organizer_of(us, row).email = where.organizer

\* the where_clause dict list_meetings builds
where_clause(status, organizer_email) ==
  (IF truthy_status(status) THEN "status" :> Val(status) ELSE <<>>)
    @@ (IF truthy_email(organizer_email) THEN "organizer" :> Val(organizer_email) ELSE <<>>)

\* a row satisfies every entry of the where clause
matches(us, row, where) ==
  /\ "status" \in DOMAIN where => row.status = where.status
  /\ "organizer" \in DOMAIN where => organizer_of(us, row).email = where.organizer

\* the orders find_many may answer for order_by={'createdAt': 'desc'}
RECURSIVE order_by_createdAt_desc(_, _)
order_by_createdAt_desc(table, ids) ==
  IF ids = {} THEN {<<>>}
  ELSE UNION {{<<m>> \o rest : rest \in order_by_createdAt_desc(table, ids \ {m})} :
                m \in {i \in ids : \A j \in ids : table[i].createdAt >= table[j].createdAt}}

\* skip=skip, take=limit on an ordered answer
skip_take(seq, skip, take) ==
  SubSeq(seq, skip + 1, IF skip + take < Len(seq) THEN skip + take ELSE Len(seq))

\* GET /: the filtered rows, newest first, one page of them
list_meetings(skip, limit, status, organizer_email) ==
  LET where == where_clause(status, organizer_email)
      ids == {i \in DOMAIN meetings : matches(users, meetings[i], where)}
  IN /\ \E ordered \in order_by_createdAt_desc(meetings, ids) :
          LET page == skip_take(ordered, skip, limit)
          IN last' = [op |-> "list_meetings", skip |-> skip, limit |-> limit,
                      status |-> status, organizer_email |-> organizer_email,
                      http |-> 200,
                      ret |-> [k \in 1..Len(page) |->
                                 MeetingResponse_from_orm(users, page[k], meetings[page[k]])]]
     /\ UNCHANGED <<users, meetings, participants, nextId, now, pending>>

\* ------------------------------------------------- interleaved requests
\* update_meeting and add_participant await the store twice: the find_unique
\* pre-check, then the write.  Other requests are served between the two.

\* update_meeting up to the end of its pre-check (lines 122-128)
update_meeting_check(id, req) ==
  LET existing_meeting == find_unique(meetings, id)
  IN IF IsNone(existing_meeting)
     THEN /\ last' = [op |-> "update_meeting", id |-> id, req |-> req,
                      http |-> 404, ret |-> None]
          /\ UNCHANGED <<users, meetings, participants, nextId, now, pending>>
     ELSE /\ Cardinality(pending) < MaxPending
          /\ pending' = pending \cup {[op |-> "update_meeting", id |-> id, req |-> req]}
          /\ UNCHANGED <<users, meetings, participants, nextId, now, last>>

\* the rest of update_meeting: db.meeting.update answers None when the row
\* is gone, MeetingResponse.from_orm(None) raises, and the route's
\* `except Exception` answers 500
update_meeting_update(r) ==
  /\ r \in pending /\ r.op = "update_meeting"
  /\ pending' = pending \ {r}
  /\ IF r.id \in DOMAIN meetings
     THEN /\ utcnow <= MaxTime
          /\ meetings' = table_update(meetings, r.id, update_data(r.req))
          /\ now' = utcnow
          /\ last' = [op |-> "update_meeting", id |-> r.id, req |-> r.req, http |-> 200,
                      ret |-> Some(MeetingResponse_from_orm(users, r.id, meetings'[r.id]))]
          /\ UNCHANGED <<users, participants, nextId>>
     ELSE /\ last' = [op |-> "update_meeting", id |-> r.id, req |-> r.req,
                      http |-> 500, ret |-> None]
          /\ UNCHANGED <<users, meetings, participants, nextId, now>>

\* a pre-check that lets every request through
add_participant_check_skipped(meeting_id, req) ==
  /\ Cardinality(pending) < MaxPending
  /\ pending' = pending \cup {[op |-> "add_participant", id |-> meeting_id, req |-> req]}
  /\ UNCHANGED <<users, meetings, participants, nextId, now, last>>

\* add_participant up to the end of its pre-check (lines 203-206)
add_participant_check(meeting_id, req) ==
  LET meeting == find_unique(meetings, meeting_id)
  IN IF IsNone(meeting)
     THEN /\ last' = [op |-> "add_participant", id |-> meeting_id, req |-> req,
                      http |-> 404, ret |-> None]
          /\ UNCHANGED <<users, meetings, participants, nextId, now, pending>>
     ELSE /\ Cardinality(pending) < MaxPending
          /\ pending' = pending \cup {[op |-> "add_participant", id |-> meeting_id, req |-> req]}
          /\ UNCHANGED <<users, meetings, participants, nextId, now, last>>

\* the meetingId of a participant row must name a stored meeting
foreign_key_holds(meeting_id) == meeting_id \in DOMAIN meetings

\* the rest of add_participant: db.meetingparticipant.create, which raises
\* when the meeting is gone (500, no row stored)
add_participant_create(r) ==
  /\ r \in pending /\ r.op = "add_participant"
  /\ pending' = pending \ {r}
  /\ IF foreign_key_holds(r.id)
     THEN LET pid == nextId.participant
              row == [meetingId |-> r.id, name |-> r.req.name, email |-> r.req.email,
                      joinedAt |-> Some(utcnow), leftAt |-> None]
          IN /\ pid <= MaxParticipants
             /\ utcnow <= MaxTime
             /\ participants' = participants @@ (pid :> row)
             /\ nextId' = [nextId EXCEPT !.participant = pid + 1]
             /\ now' = utcnow
             /\ last' = [op |-> "add_participant", id |-> r.id, req |-> r.req,
                         http |-> 200,
                         ret |-> Some(MeetingParticipantResponse_from_orm(pid, row))]
             /\ UNCHANGED <<users, meetings>>
     ELSE /\ last' = [op |-> "add_participant", id |-> r.id, req |-> r.req,
                      http |-> 500, ret |-> None]
          /\ UNCHANGED <<users, meetings, participants, nextId, now>>

\* ------------------------------------------------------------- requests
Titles == StringsUpTo(MaxTitleLen)
Emails == {<<"a", "@", "x">>, <<"a", "@", "y">>}
MeetingIds == 1..MaxMeetings
ParticipantIds == 1..MaxParticipants

CreateRequests ==
  [title : Titles, description : {None, Some("d")}, scheduled_at : {None, Some(1)},
   meeting_url : {None, Some("u")}, organizer_email : Emails]

PlainFields(r) == IsNone(r.description) /\ IsNone(r.scheduled_at) /\ IsNone(r.meeting_url)

\* the plainest valid requests, one per organizer
PlainCreateRequests == {r \in CreateRequests : r.title = <<"a">> /\ PlainFields(r)}

\* the plainest valid request of one organizer
OneCreateRequest == {r \in PlainCreateRequests : r.organizer_email = <<"a", "@", "x">>}

\* every title and organizer with plain fields, every choice of fields with
\* a plain title
SampleCreateRequests ==
  {r \in CreateRequests : PlainFields(r) \/ r.title = <<"a">>}

\* each field either omitted or supplied
UpdateRequests ==
  [title : {None, Some(<<" ", "a">>)}, description : {None, Some("x")},
   scheduled_at : {None, Some(2)}, meeting_url : {None, Some("v")},
   status : {None, Some(CANCELLED)}]

Supplied(req) == {f \in DOMAIN req : ~IsNone(req[f])}

\* the requests that supply at most one field
SingleUpdateRequests == {r \in UpdateRequests : Cardinality(Supplied(r)) <= 1}

\* the requests that supply no field, one field, two fields, or all of them
SampleUpdateRequests == {r \in UpdateRequests : Cardinality(Supplied(r)) \in {0, 1, 2, 5}}

\* update_participant_status: a time before every stamp and one after
JoinedAtInputs == {None, Some(0), Some(MaxTime)}
LeftAtInputs == {None, Some(MaxTime)}

AddParticipantRequests == [name : {"n"}, email : {None}]

\* Query(20, ge=1, le=100): the smallest and the largest page
LimitMin == 1
LimitMax == 100

StatusFilters == {None, Some("")} \cup {Some(st) : st \in MeetingStatus}
EmailFilters == {None, Some(<<>>)} \cup {Some(e) : e \in Emails}

\* ---------------------------------------------------------------- steps
CreateAny == \E req \in SampleCreateRequests : create_meeting(req)
CreateMeeting == \E req \in PlainCreateRequests : create_meeting(req)
CreateOne == \E req \in OneCreateRequest : create_meeting(req)
GetMeeting == \E id \in MeetingIds : get_meeting(id)
UpdateAny == \E id \in MeetingIds, req \in SampleUpdateRequests : update_meeting(id, req)
UpdateMeeting == \E id \in MeetingIds, req \in SingleUpdateRequests : update_meeting(id, req)
DeleteMeeting == \E id \in MeetingIds : delete_meeting(id)
StartMeeting == \E id \in MeetingIds : start_meeting(id)
EndMeeting == \E id \in MeetingIds : end_meeting(id)
AddParticipant ==
  \E id \in MeetingIds, req \in AddParticipantRequests : add_participant(id, req)
GetParticipants == \E id \in MeetingIds : get_participants(id)
UpdateParticipantStatus ==
  \E id \in ParticipantIds, joined_at \in JoinedAtInputs, left_at \in LeftAtInputs :
       update_participant_status(id, joined_at, left_at)
ListMeetings ==
  \E skip \in {0, 1}, limit \in {LimitMin, LimitMax},
     status \in StatusFilters, organizer_email \in EmailFilters :
       list_meetings(skip, limit, status, organizer_email)

\* the meeting lifecycle and its participants
Next ==
  \/ CreateOne \/ UpdateMeeting \/ DeleteMeeting \/ StartMeeting \/ EndMeeting
  \/ AddParticipant \/ UpdateParticipantStatus \/ GetParticipants
Spec == Init /\ [][Next]_vars

\* creation with every title, organizer and choice of fields; deletion; lookup
NextCreate == CreateAny \/ DeleteMeeting \/ GetMeeting
SpecCreate == Init /\ [][NextCreate]_vars

\* partial updates supplying no field, one, two or all of them
NextUpdate == CreateOne \/ UpdateAny
SpecUpdate == Init /\ [][NextUpdate]_vars

\* listing over stores of scheduled and completed meetings of two organizers
NextList == CreateMeeting \/ EndMeeting \/ ListMeetings
SpecList == Init /\ [][NextList]_vars

\* requests interleaved at their awaits: an update or an add_participant is
\* between its pre-check and its write while creations and deletions are served
OneUpdateRequest ==
  [title |-> None, description |-> Some("x"), scheduled_at |-> None,
   status |-> None, meeting_url |-> None]
UpdateCheck == \E id \in MeetingIds : update_meeting_check(id, OneUpdateRequest)
UpdateWrite == \E r \in pending : update_meeting_update(r)
AddParticipantCheck ==
  \E id \in MeetingIds, req \in AddParticipantRequests : add_participant_check(id, req)
AddParticipantCreate == \E r \in pending : add_participant_create(r)

NextRace ==
  \/ CreateOne \/ DeleteMeeting \/ UpdateCheck \/ UpdateWrite
  \/ AddParticipantCheck \/ AddParticipantCreate
SpecRace == Init /\ [][NextRace]_vars

\* =============================================================== claims
AllWhitespace(s) == \A k \in 1..Len(s) : s[k] \in Whitespace

\* t is raw without its leading and trailing whitespace
IsTrimOf(t, raw) ==
  /\ t /= <<>>
  /\ t[1] \notin Whitespace /\ t[Len(t)] \notin Whitespace
  /\ \E i \in 0..Len(raw) :
       /\ i + Len(t) <= Len(raw)
       /\ t = SubSeq(raw, i + 1, i + Len(t))
       /\ AllWhitespace(SubSeq(raw, 1, i))
       /\ AllWhitespace(SubSeq(raw, i + Len(t) + 1, Len(raw)))

\* n is the part of email e before its first '@'
IsLocalPart(n, e) ==
  /\ Len(n) <= Len(e)
  /\ n = SubSeq(e, 1, Len(n))
  /\ \A k \in 1..Len(n) : n[k] /= "@"
  /\ Len(n) < Len(e) => e[Len(n) + 1] = "@"

\* C1: a create_meeting request with an empty or whitespace-only title fails
\* with a validation error and stores nothing; with any other title it stores
\* one new meeting whose title is the input without its leading and trailing
\* whitespace.
C1_TitleValidatedAndTrimmed ==
  [][last'.op = "create_meeting" =>
       IF AllWhitespace(last'.req.title)
       THEN /\ last'.http = 422 /\ IsNone(last'.ret)
            /\ meetings' = meetings /\ users' = users
       ELSE /\ last'.http = 200
            /\ \E id \in DOMAIN meetings' \ DOMAIN meetings :
                 /\ DOMAIN meetings' = DOMAIN meetings \cup {id}
                 /\ IsTrimOf(meetings'[id].title, last'.req.title)
                 /\ Val(last'.ret).title = meetings'[id].title]_vars

C1_Witness ==
  /\ last.op = "create_meeting" /\ last.http = 200
  /\ Val(last.ret).title /= last.req.title
  /\ meetings[Val(last.ret).id].title = <<"a">>

\* C2: every successful create_meeting leaves exactly one User with the
\* request's organizer_email; an unseen email adds one User named by the part
\* of the email before '@', a known email adds none; the Users that existed
\* are kept as they were and the new Meeting belongs to the User of the email;
\* no other request changes the Users.
C2_OneUserPerEmail ==
  [][IF last'.op = "create_meeting" /\ last'.http = 200
     THEN LET e == last'.req.organizer_email
              owners == {u \in users' : u.email = e}
          IN /\ Cardinality(owners) = 1
             /\ users \subseteq users'
             /\ (\E u \in users : u.email = e) => users' = users
             /\ \A u \in users' \ users : u.email = e /\ IsLocalPart(u.name, e)
             /\ \A u \in owners :
                  meetings'[Val(last'.ret).id].organizerId = u.id
     ELSE users' = users]_vars

C2_Witness ==
  /\ last.op = "create_meeting" /\ last.http = 200
  /\ Cardinality(DOMAIN meetings) = 2
  /\ Cardinality(users) = 1
  /\ \A id \in DOMAIN meetings : \E u \in users : meetings[id].organizerId = u.id

\* C3: delete_meeting on an id that matches no Meeting returns false (404);
\* on the id of an existing Meeting it returns true and get_meeting_details
\* on that id then reports not-found.
C3_DeleteReportsMissing ==
  [][last'.op = "delete_meeting" =>
       IF last'.id \in DOMAIN meetings
       THEN /\ last'.ret = TRUE /\ last'.http = 200
            /\ IsNone(find_unique(meetings', last'.id))
       ELSE last'.ret = FALSE /\ last'.http = 404]_vars

\* C8: the Meeting a successful create_meeting returns, and the row it
\* stored, have status SCHEDULED and neither started_at nor ended_at.
C8_CreatedScheduled ==
  last.op = "create_meeting" /\ last.http = 200 =>
    LET m == Val(last.ret)
    IN /\ m.status = SCHEDULED /\ IsNone(m.started_at) /\ IsNone(m.ended_at)
       /\ m.id \in DOMAIN meetings
       /\ meetings[m.id].status = SCHEDULED
       /\ IsNone(meetings[m.id].startedAt) /\ IsNone(meetings[m.id].endedAt)

C8_Witness ==
  /\ last.op = "create_meeting" /\ last.http = 200
  /\ ~IsNone(last.req.scheduled_at) /\ ~IsNone(last.req.description)
  /\ ~IsNone(last.req.meeting_url)
  /\ Val(last.ret).status = SCHEDULED

\* C4: after a successful end_meeting on a meeting that has been started (its
\* startedAt is set, which only start_meeting does), the meeting has status
\* COMPLETED and started_at strictly earlier than ended_at, however many
\* starts came before.
C4_StartedBeforeEnded ==
  last.op = "end_meeting" /\ last.http = 200 /\ ~IsNone(meetings[last.id].startedAt) =>
    /\ meetings[last.id].status = COMPLETED
    /\ ~IsNone(meetings[last.id].endedAt)
    /\ Val(meetings[last.id].startedAt) < Val(meetings[last.id].endedAt)
    /\ Val(last.ret).status = COMPLETED
    /\ Val(last.ret).started_at = meetings[last.id].startedAt
    /\ Val(last.ret).ended_at = meetings[last.id].endedAt

\* an end that follows a start which was not the first write after creation
C4_Witness ==
  /\ last.op = "end_meeting" /\ last.http = 200
  /\ ~IsNone(meetings[last.id].startedAt)
  /\ Val(meetings[last.id].startedAt) > meetings[last.id].createdAt + 1
  /\ Val(meetings[last.id].endedAt) = Val(meetings[last.id].startedAt) + 1

\* the column of the meetings table an UpdateMeetingRequest field is written to
ColumnOf(f) ==
  CASE f = "title" -> "title"
    [] f = "description" -> "description"
    [] f = "scheduled_at" -> "scheduledAt"
    [] f = "meeting_url" -> "meetingUrl"
    [] f = "status" -> "status"

C6_TimestampsOnlyByStartEnd ==
  [][\A id \in DOMAIN meetings' :
       IF id \in DOMAIN meetings
       THEN /\ meetings'[id].startedAt /= meetings[id].startedAt =>
                 last'.op = "start_meeting" /\ last'.id = id
            /\ meetings'[id].endedAt /= meetings[id].endedAt =>
                 last'.op = "end_meeting" /\ last'.id = id
       ELSE IsNone(meetings'[id].startedAt) /\ IsNone(meetings'[id].endedAt)]_vars

\* a start on a meeting that had been started and ended before
C6_Witness ==
  /\ last.op = "start_meeting" /\ last.http = 200
  /\ ~IsNone(meetings[last.id].endedAt)
  /\ Val(meetings[last.id].startedAt) > Val(meetings[last.id].endedAt)

\* C7: every stored Meeting's title is non-empty and has no leading or
\* trailing whitespace.
C7_TitlesNonEmptyTrimmed ==
  \A id \in DOMAIN meetings :
    LET t == meetings[id].title
    IN t /= <<>> /\ t[1] \notin Whitespace /\ t[Len(t)] \notin Whitespace

\* the rows a list request asks for: every supplied filter must match
C9_Selected(status, organizer_email) ==
  {i \in DOMAIN meetings :
     /\ ~IsNone(status) => meetings[i].status = Val(status)
     /\ ~IsNone(organizer_email) =>
          \E u \in users : u.id = meetings[i].organizerId /\ u.email = Val(organizer_email)}

\* the rows a list request asks for when an empty string counts as no filter
C9_SelectedNonEmpty(status, organizer_email) ==
  {i \in DOMAIN meetings :
     /\ (~IsNone(status) /\ Val(status) /= "") => meetings[i].status = Val(status)
     /\ (~IsNone(organizer_email) /\ Val(organizer_email) /= <<>>) =>
          \E u \in users : u.id = meetings[i].organizerId /\ u.email = Val(organizer_email)}

\* ret is the page skip .. skip+limit-1 of the rows of selected, newest first
C9_IsPage(ret, selected, skip, limit) ==
  LET rest == Cardinality(selected) - skip
      newer(i) == Cardinality({j \in selected : meetings[j].createdAt > meetings[i].createdAt})
  IN /\ Len(ret) = IF rest <= 0 THEN 0 ELSE IF rest < limit THEN rest ELSE limit
     /\ \A k \in 1..Len(ret) :
          /\ ret[k].id \in selected
          /\ newer(ret[k].id) = skip + k - 1
          /\ ret[k].status = meetings[ret[k].id].status
          /\ ret[k].title = meetings[ret[k].id].title

C10_ParticipantsByJoinedAt ==
  last.op = "get_participants" =>
    LET ret == last.ret
    IN /\ {ret[k].id : k \in 1..Len(ret)} =
            {p \in DOMAIN participants : participants[p].meetingId = last.id}
       /\ \A k, l \in 1..Len(ret) : k < l =>
            /\ ret[k].id /= ret[l].id
            /\ Val(ret[k].joined_at) <= Val(ret[l].joined_at)
       /\ \A k \in 1..Len(ret) : ret[k].joined_at = participants[ret[k].id].joinedAt

\* the participant added second is answered first, its joined_at being earlier
C10_Witness ==
  /\ last.op = "get_participants"
  /\ Len(last.ret) = 2
  /\ last.ret[1].id > last.ret[2].id
  /\ Val(last.ret[1].joined_at) < Val(last.ret[2].joined_at)

\* C11: start_meeting and end_meeting on an id that matches no stored Meeting
\* answer not-found (404, no Meeting returned), create no Meeting and leave
\* every stored Meeting, User and participant as it was.
C11_MissingIdNotFound ==
  [][(last'.op \in {"start_meeting", "end_meeting"} /\ last'.id \notin DOMAIN meetings) =>
       /\ last'.http = 404 /\ IsNone(last'.ret)
       /\ meetings' = meetings
       /\ users' = users /\ participants' = participants]_vars

\* an end on an id that was deleted, with another meeting still stored
C11_Witness ==
  /\ last.op = "end_meeting" /\ last.http = 404
  /\ last.id \notin DOMAIN meetings
  /\ last.id < nextId.meeting
  /\ DOMAIN meetings /= {}

\* C12: start_meeting on an existing meeting succeeds whatever its status,
\* leaving status IN_PROGRESS and started_at at the time of the call;
\* end_meeting likewise leaves status COMPLETED and ended_at at the time of
\* the call.
C12_NoStatusGuard ==
  [][\A id \in DOMAIN meetings : \A st \in MeetingStatus :
       meetings[id].status = st =>
         /\ (last'.op = "start_meeting" /\ last'.id = id) =>
              /\ last'.http = 200
              /\ meetings'[id].status = IN_PROGRESS
              /\ meetings'[id].startedAt = Some(now') /\ now' > now
              /\ Val(last'.ret).status = IN_PROGRESS
              /\ Val(last'.ret).started_at = Some(now')
         /\ (last'.op = "end_meeting" /\ last'.id = id) =>
              /\ last'.http = 200
              /\ meetings'[id].status = COMPLETED
              /\ meetings'[id].endedAt = Some(now') /\ now' > now
              /\ Val(last'.ret).status = COMPLETED
              /\ Val(last'.ret).ended_at = Some(now')]_vars

\* a start right after the end of the same meeting: a start from COMPLETED
C12_Witness ==
  /\ last.op = "start_meeting" /\ last.http = 200
  /\ meetings[last.id].status = IN_PROGRESS
  /\ ~IsNone(meetings[last.id].endedAt)
  /\ Val(meetings[last.id].startedAt) = Val(meetings[last.id].endedAt) + 1

\* C13: an update_meeting request interleaved with a delete_meeting on the
\* same id ends with the updated Meeting (200) or with not-found (404),
\* never with an unexpected failure (500).
C13_UpdateNever500 ==
  last.op = "update_meeting" => last.http \in {200, 404}

====
